---- MODULE Spec2Model ----
(***************************************************************************)
(* Post / image persistence workflow of the blog application (src/app.py): *)
(* the User and Post tables, the upload folder, the login session of each  *)
(* browser, and the request handlers login, logout, admin (create and      *)
(* list), blog (list), delete_post, plus the bootstrap setup_database.     *)
(*                                                                         *)
(* File names are sequences of one-character strings, so that              *)
(* secure_filename is computed and not assumed.  A form text is a run of   *)
(* one character, kept as its length and that character: the handlers only *)
(* test a text for emptiness and take its len().                           *)
(***************************************************************************)
EXTENDS Integers, Sequences, FiniteSets, TLC

VARIABLES
    users,      \* rows of table User: [id, username, password]
    posts,      \* rows of table Post: [id, title, content, date_posted, image_file]
    files,      \* names of the files present in UPLOAD_FOLDER
    session,    \* per browser: the user id held by the login cookie, 0 = anonymous
    now,        \* the reading of datetime.utcnow
    pc,         \* position of the request being handled: "idle", "received",
                \* "persist", "remove"
    req,        \* locals of the request being handled
    last        \* the latest handler step: [op, out, arg]; arg is the listing a
                \* page shows, or the diagnostic a delete printed

vars == <<users, posts, files, session, now, pc, req, last>>

----------------------------------------------------------------------------
\* Bounds of the model
MaxPosts == 2       \* largest Post id handed out
MaxClock == 1       \* largest clock reading

\* Program constants
MaxTitleLen == 80

Sessions == {"s1"}
ADMIN_USERNAME == <<"a", "d", "m", "i", "n">>
ADMIN_PASSWORD == <<"p", "i", "v", "o", "3", "2", "2", "8">>
Usernames == {ADMIN_USERNAME, <<"b", "o", "b">>}
Passwords == {ADMIN_PASSWORD, <<"x">>}
Salts == {1, 2}

\* Python's None for request.files.get('image') and for Post.image_file
None == <<"None">>

\* the text made of n times the character ch
Rep(n, ch) == [len |-> n, ch |-> ch]
Titles == {Rep(0, "t"), Rep(MaxTitleLen, "t"), Rep(MaxTitleLen + 1, "t")}
Contents == {Rep(0, "x"), Rep(1, "x")}
\* the file names a browser may send with the image part
RawNames == {<<"a">>, <<"b">>, <<".", ".", "/", "a">>, <<".", ".", "/">>}
Images == {None} \cup RawNames

----------------------------------------------------------------------------
\* werkzeug.utils.secure_filename, as called at app.py:136
FilenameChars == {"a", "b", ".", "_", "-"}

ReplaceSep(f) == [i \in 1..Len(f) |-> IF f[i] = "/" THEN " " ELSE f[i]]

RECURSIVE JoinSplitFrom(_, _, _)
\* "_".join(f.split()): words kept, each inner run of blanks becomes one "_"
JoinSplitFrom(f, i, seenWord) ==
    IF i > Len(f) THEN <<>>
    ELSE IF f[i] # " " THEN <<f[i]>> \o JoinSplitFrom(f, i + 1, TRUE)
    ELSE IF /\ seenWord
            /\ f[i - 1] # " "
            /\ \E j \in (i + 1)..Len(f) : f[j] # " "
         THEN <<"_">> \o JoinSplitFrom(f, i + 1, seenWord)
         ELSE JoinSplitFrom(f, i + 1, seenWord)

JoinSplit(f) == JoinSplitFrom(f, 1, FALSE)

IsFilenameChar(c) == c \in FilenameChars

RECURSIVE StripLeft(_)
StripLeft(f) ==
    IF f # <<>> /\ Head(f) \in {".", "_"} THEN StripLeft(Tail(f)) ELSE f

RECURSIVE StripRight(_)
StripRight(f) ==
    IF f # <<>> /\ f[Len(f)] \in {".", "_"}
    THEN StripRight(SubSeq(f, 1, Len(f) - 1)) ELSE f

secure_filename(f) ==
    StripRight(StripLeft(SelectSeq(JoinSplit(ReplaceSep(f)), IsFilenameChar)))

----------------------------------------------------------------------------
\* werkzeug.security: a salted one-way hash, and its verification
generate_password_hash(password, salt) ==
    [salt |-> salt, digest |-> <<salt, password>>]

check_password_hash(pwhash, password) ==
    pwhash.digest = <<pwhash.salt, password>>

----------------------------------------------------------------------------
\* Queries
Max(S) == CHOOSE x \in S : \A y \in S : y <= x

\* INTEGER PRIMARY KEY of the default sqlite database: largest id plus one
NextRowId(rows) == IF rows = {} THEN 1 ELSE Max({r.id : r \in rows}) + 1

\* User.query.filter_by(username=...).first()
UsersByName(username) == {u \in users : u.username = username}

\* flask_login: current_user.is_authenticated, through load_user
load_user(user_id) == {u \in users : u.id = user_id}
is_authenticated(s) == load_user(session[s]) # {}

\* the id filter left out, as with Post.query.first_or_404()
PostsByIdAny(post_id) == posts

\* Post.query.get(post_id)
PostsById(post_id) == {p \in posts : p.id = post_id}

Perms(S) ==
    {f \in [1..Cardinality(S) -> S] :
        \A i, j \in 1..Cardinality(S) : i # j => f[i] # f[j]}

\* the sort without desc(): a row goes before the first strictly newer row
InsertAsc(sorted, p) ==
    LET newer == {i \in 1..Len(sorted) : sorted[i].date_posted > p.date_posted}
        k == IF newer = {} THEN Len(sorted) + 1 ELSE CHOOSE i \in newer : \A j \in newer : i <= j
    IN SubSeq(sorted, 1, k - 1) \o <<p>> \o SubSeq(sorted, k, Len(sorted))

\* one row placed into an already ordered result: before the first row that
\* is strictly older
InsertDesc(sorted, p) ==
    LET older == {i \in 1..Len(sorted) : sorted[i].date_posted < p.date_posted}
        k == IF older = {} THEN Len(sorted) + 1 ELSE CHOOSE i \in older : \A j \in older : i <= j
    IN SubSeq(sorted, 1, k - 1) \o <<p>> \o SubSeq(sorted, k, Len(sorted))

RECURSIVE OrderByDateDesc(_)
\* ORDER BY date_posted DESC over the rows in the order the scan yields them
OrderByDateDesc(scan) ==
    IF scan = <<>> THEN <<>>
    ELSE InsertDesc(OrderByDateDesc(SubSeq(scan, 1, Len(scan) - 1)), scan[Len(scan)])

\* Post.query.order_by(Post.date_posted.desc()).all(): the order of rows with
\* equal date_posted is whatever the scan of the table yields
ListAllResults(rows) == {OrderByDateDesc(scan) : scan \in Perms(rows)}

----------------------------------------------------------------------------
Step(op, out) == [op |-> op, out |-> out, arg |-> <<>>]
NoReq == [s |-> "none"]

Init ==
    /\ users = {}
    /\ posts = {}
    /\ files = {}
    /\ session = [s \in Sessions |-> 0]
    /\ now = 0
    /\ pc = "idle"
    /\ req = NoReq
    /\ last = Step("start", "none")

\* db.session.add(user); db.session.commit(): username is a unique column, a
\* second row with the same username is refused and rolled back
InsertUser(user) ==
    IF \E u \in users : u.username = user.username THEN users ELSE users \cup {user}

\* a bootstrap that sets the configured password again when the admin exists
EnsureAdminReset(salt) ==
    IF {u \in users : u.username = ADMIN_USERNAME} = {}
    THEN users \cup {[id |-> NextRowId(users), username |-> ADMIN_USERNAME,
                      password |-> generate_password_hash(ADMIN_PASSWORD, salt)]}
    ELSE {IF u.username = ADMIN_USERNAME
          THEN [u EXCEPT !.password = generate_password_hash(ADMIN_PASSWORD, salt)]
          ELSE u : u \in users}

\* setup_database, lines 169-173: the User table after the routine, given the
\* salt drawn by generate_password_hash
EnsureAdmin(salt) ==
    IF UsersByName(ADMIN_USERNAME) = {}
    THEN InsertUser([id |-> NextRowId(users), username |-> ADMIN_USERNAME,
                     password |-> generate_password_hash(ADMIN_PASSWORD, salt)])
    ELSE users

\* setup_database(app): run by a starting process, at any moment
setup_database ==
    /\ \E salt \in Salts : users' = EnsureAdmin(salt)
    /\ last' = Step("setup", IF users' = users THEN "exists" ELSE "created")
    /\ UNCHANGED <<posts, files, session, now, pc, req>>

\* the clock advances
Tick ==
    /\ now < MaxClock
    /\ now' = now + 1
    /\ UNCHANGED <<users, posts, files, session, pc, req, last>>

\* a handler answers without touching the database, the folder or the cookie
Respond(op, out) ==
    /\ last' = Step(op, out)
    /\ UNCHANGED <<users, posts, files, session, now, pc, req>>

\* the password test left out: "if user:"
CredentialsAny(user, password) == TRUE

\* login, line 104: the password is verified against the stored hash
CredentialsOk(user, password) == check_password_hash(user.password, password)

\* POST /login
login(s, username, password) ==
    /\ pc = "idle"
    /\ IF is_authenticated(s)
       THEN Respond("login", "redirect_admin")
       ELSE IF \E user \in UsersByName(username) : CredentialsOk(user, password)
            THEN \E user \in UsersByName(username) :
                    /\ CredentialsOk(user, password)
                    /\ session' = [session EXCEPT ![s] = user.id]
                    /\ last' = Step("login", "ok")
                    /\ UNCHANGED <<users, posts, files, now, pc, req>>
            ELSE Respond("login", "bad_credentials")

\* @login_required: the request goes on only for a logged-in session
login_required(s) == is_authenticated(s)

\* GET /logout
logout(s) ==
    /\ pc = "idle"
    /\ IF ~login_required(s)
       THEN Respond("logout", "login_required")
       ELSE /\ session' = [session EXCEPT ![s] = 0]
            /\ last' = Step("logout", "ok")
            /\ UNCHANGED <<users, posts, files, now, pc, req>>

\* Python truth value of a file name: None and '' are false
Falsy(x) == x = None \/ x = <<>>

\* len() of a form text
StrLen(x) == x.len

\* the limit taken from the column width String(100)
TitleTooLongColumn(title) == title.len > 100

\* admin, lines 126-132: the two validation tests
MissingField(title, content) == StrLen(title) = 0 \/ StrLen(content) = 0

TitleTooLong(title) == StrLen(title) > MaxTitleLen

\* image.save(os.path.join(UPLOAD_FOLDER, filename)): an empty name is the
\* folder itself and cannot be opened; any other write may fail, before or
\* after the file has been created
image_save(filename) ==
    IF filename = <<>>
    THEN {[ok |-> FALSE, files |-> files]}
    ELSE {[ok |-> TRUE, files |-> files \cup {filename}],
          [ok |-> FALSE, files |-> files],
          [ok |-> FALSE, files |-> files \cup {filename}]}

\* the upload wrapped in try/except: the create goes on without an image
SaveSwallowed(o) == FALSE

\* line 138 stands outside any try: an error of image.save leaves the handler
SaveRaises(o) == ~o.ok

\* the two text fields passed in each other's place
NewPostSwapped(title, content, filename) ==
    [id |-> NextRowId(posts), title |-> content, content |-> title,
     date_posted |-> now, image_file |-> filename]

\* Post(title=title, content=content, image_file=filename), with the column
\* defaults filled in at the insert
NewPost(title, content, filename) ==
    [id |-> NextRowId(posts), title |-> title, content |-> content,
     date_posted |-> now, image_file |-> filename]

\* POST /admin arrives: the login check and the form read (lines 118-124)
admin_request(s, title, content, image) ==
    /\ pc = "idle"
    /\ NextRowId(posts) <= MaxPosts
    /\ IF ~login_required(s)
       THEN Respond("create", "login_required")
       ELSE /\ pc' = "received"
            /\ req' = [s |-> s, title |-> title, content |-> content, image |-> image]
            /\ last' = Step("create", "received")
            /\ UNCHANGED <<users, posts, files, session, now>>

\* the request ends before the insert, with this answer
Abort(out) ==
    /\ pc' = "idle"
    /\ req' = NoReq
    /\ last' = Step("create", out)

\* the request goes on to the insert, with this image_file
Proceed(filename) ==
    /\ pc' = "persist"
    /\ req' = [s |-> req.s, title |-> req.title, content |-> req.content,
               filename |-> filename]
    /\ last' = Step("create", "pending")

\* POST /admin, validation and image upload (lines 126-138)
admin_post ==
    /\ pc = "received"
    /\ IF MissingField(req.title, req.content)
       THEN Abort("rejected") /\ UNCHANGED files
       ELSE IF TitleTooLong(req.title)
       THEN Abort("rejected") /\ UNCHANGED files
       ELSE IF ~Falsy(req.image)
       THEN \E o \in image_save(secure_filename(req.image)) :
               /\ files' = o.files
               /\ IF SaveRaises(o)
                  THEN Abort("error")
                  ELSE Proceed(IF o.ok THEN secure_filename(req.image) ELSE None)
       ELSE Proceed(None) /\ UNCHANGED files
    /\ UNCHANGED <<users, posts, session, now>>

\* POST /admin from the insert to the redirect (lines 140-144)
admin_commit ==
    /\ pc = "persist"
    /\ posts' = posts \cup {NewPost(req.title, req.content, req.filename)}
    /\ pc' = "idle"
    /\ req' = NoReq
    /\ last' = Step("create", "created")
    /\ UNCHANGED <<users, files, session, now>>

\* GET /blog
blog(s) ==
    /\ pc = "idle"
    /\ \E l \in ListAllResults(posts) :
          last' = [Step("blog", "ok") EXCEPT !.arg = l]
    /\ UNCHANGED <<users, posts, files, session, now, pc, req>>

\* GET /admin
admin_get(s) ==
    /\ pc = "idle"
    /\ IF ~login_required(s)
       THEN Respond("admin", "login_required")
       ELSE /\ \E l \in ListAllResults(posts) :
                  last' = [Step("admin", "ok") EXCEPT !.arg = l]
            /\ UNCHANGED <<users, posts, files, session, now, pc, req>>

\* the removal aimed at another folder: it reports success, the file stays
remove_file_elsewhere(filename) ==
    IF filename \in files
    THEN {[out |-> "removed", files |-> files], [out |-> "error", files |-> files]}
    ELSE {[out |-> "missing", files |-> files]}

\* delete_post, lines 154-159: exists, remove, and the except that swallows
remove_file(filename) ==
    IF filename \in files
    THEN {[out |-> "removed", files |-> files \ {filename}],
          [out |-> "error", files |-> files]}
    ELSE {[out |-> "missing", files |-> files]}

\* POST /delete_post/<id> up to and including the file removal (lines 152-159)
delete_post(s, post_id) ==
    /\ pc = "idle"
    /\ IF ~login_required(s)
       THEN Respond("delete", "login_required")
       ELSE IF PostsById(post_id) = {}
       THEN Respond("delete", "not_found")
       ELSE \E p \in PostsById(post_id) :
              /\ IF ~Falsy(p.image_file)
                 THEN \E o \in remove_file(p.image_file) :
                         /\ files' = o.files
                         /\ req' = [s |-> s, post_id |-> post_id, rm |-> o.out]
                 ELSE /\ files' = files
                      /\ req' = [s |-> s, post_id |-> post_id, rm |-> "none"]
              /\ pc' = "remove"
              /\ last' = Step("delete", "pending")
              /\ UNCHANGED <<users, posts, session, now>>

\* the row delete placed inside the try: a failed file removal skips it
DeleteRowUnlessError(post_id) ==
    IF req.rm = "error" THEN posts ELSE posts \ {p \in posts : p.id = post_id}

\* db.session.delete(post_to_delete): the rows left in the table
DeleteRow(post_id) == posts \ PostsById(post_id)

\* POST /delete_post/<id> from the row delete to the redirect (lines 160-163)
delete_commit ==
    /\ pc = "remove"
    /\ posts' = DeleteRow(req.post_id)
    /\ pc' = "idle"
    /\ req' = NoReq
    /\ last' = [Step("delete", "deleted") EXCEPT !.arg = <<req.rm>>]
    /\ UNCHANGED <<users, files, session, now>>

\* the process dies while a write is being handled
Interrupt ==
    /\ pc # "idle"
    /\ pc' = "idle"
    /\ req' = NoReq
    /\ last' = Step(IF pc = "remove" THEN "delete" ELSE "create", "interrupted")
    /\ UNCHANGED <<users, posts, files, session, now>>

PostIds == 1..MaxPosts

Next ==
    \/ setup_database
    \/ Tick
    \/ \E s \in Sessions, username \in Usernames, password \in Passwords :
          login(s, username, password)
    \/ \E s \in Sessions : logout(s)
    \/ \E s \in Sessions, title \in Titles, content \in Contents, image \in Images :
          admin_request(s, title, content, image)
    \/ admin_post
    \/ admin_commit
    \/ \E s \in Sessions : blog(s)
    \/ \E s \in Sessions : admin_get(s)
    \/ \E s \in Sessions, post_id \in PostIds : delete_post(s, post_id)
    \/ delete_commit
    \/ Interrupt

Spec == Init /\ [][Next]_vars

\* every request runs to its end: the process is never killed between steps
Completed ==
    \/ setup_database
    \/ Tick
    \/ \E s \in Sessions, username \in Usernames, password \in Passwords :
          login(s, username, password)
    \/ \E s \in Sessions : logout(s)
    \/ \E s \in Sessions, title \in Titles, content \in Contents, image \in Images :
          admin_request(s, title, content, image)
    \/ admin_post
    \/ admin_commit
    \/ \E s \in Sessions : blog(s)
    \/ \E s \in Sessions : admin_get(s)
    \/ \E s \in Sessions, post_id \in PostIds : delete_post(s, post_id)
    \/ delete_commit

SpecCompleted == Init /\ [][Completed]_vars

----------------------------------------------------------------------------
\* Vocabulary of the properties, stated on the tables and not through the
\* handlers' own tests

AuthdIn(us, sess, s) == \E u \in us : u.id = sess[s]
Authd(s) == AuthdIn(users, session, s)

ValidRequest(t, c) == t.len >= 1 /\ t.len <= MaxTitleLen /\ c.len >= 1
InvalidRequest(t, c) == t.len = 0 \/ c.len = 0 \/ t.len > MaxTitleLen

HasPost(id) == \E p \in posts : p.id = id
HasImagePost(id) == \E p \in posts : p.id = id /\ p.image_file # None

\* a step that answers a delete request
DeleteStep == pc = "idle" /\ last'.op = "delete"

\* the step that handles the create request read into req, the process alive
Handled == pc = "received" /\ pc' # "received" /\ last'.out # "interrupted"

\* the step that ends a create with a new row
Created == pc = "persist" /\ last'.out = "created"
\* the step that ends a delete
Deleted == pc = "remove" /\ last'.out = "deleted"

\* the rows of l are exactly rows, each once
ListsEach(l, rows) ==
    /\ Len(l) = Cardinality(rows)
    /\ {l[k] : k \in 1..Len(l)} = rows

C2_RejectedBeforeWrite ==
    [][ /\ (pc = "idle" /\ pc' = "received") => (posts' = posts /\ files' = files)
        /\ (Handled /\ InvalidRequest(req.title, req.content)) =>
              /\ posts' = posts
              /\ files' = files
              /\ pc' = "idle"
              /\ last'.op = "create" /\ last'.out = "rejected"
      ]_vars

\* a create was rejected in a repository that holds posts and files
C2_Witness ==
    last.op = "create" /\ last.out = "rejected" /\ posts # {} /\ files # {}

\* C3: delete of an id that no post has answers NotFound (to a logged-in
\* session) and changes neither the posts nor the files; after a completed
\* delete no post has the deleted id, so a second delete of it is such a one.
C3_DeleteAbsent ==
    [][ /\ DeleteStep =>
              \A s \in Sessions, id \in PostIds :
              (~HasPost(id) /\ delete_post(s, id))
                 => /\ posts' = posts
                    /\ files' = files
                    /\ pc' = "idle"
                    /\ Authd(s) => (last'.op = "delete" /\ last'.out = "not_found")
        /\ Deleted => \A p \in posts' : p.id # req.post_id
      ]_vars

\* NotFound was answered while other posts and files exist
C3_Witness ==
    last.op = "delete" /\ last.out = "not_found" /\ posts # {} /\ files # {}

\* C4: delete of an existing post with an image goes on to the row delete
\* whatever the file removal did (removed, failed, no file), and the row
\* delete removes that post and leaves every other post as it was.
C4_DeleteRemovesRecord ==
    [][ /\ DeleteStep =>
              \A s \in Sessions, id \in PostIds :
              (Authd(s) /\ HasImagePost(id) /\ delete_post(s, id))
                 => /\ pc' = "remove"
                    /\ req'.post_id = id
                    /\ posts' = posts
                    /\ last'.out = "pending"
        /\ pc = "remove" /\ pc' = "idle" => last'.out \in {"deleted", "interrupted"}
        /\ Deleted => posts' = {p \in posts : p.id # req.post_id}
        /\ Deleted => HasPost(req.post_id)
      ]_vars

\* a delete completed although the removal of its file had failed, and
\* another post is still there
C4_Witness ==
    /\ last.op = "delete" /\ last.out = "deleted" /\ last.arg = <<"error">>
    /\ posts # {}

\* C5: after setup_database has run there is exactly one principal, it has
\* the admin username, and no step ever adds a second one or changes a
\* stored row (so the hash stays the one of the run that created it).
C5_BootstrapIdempotent ==
    [][ /\ last'.op = "setup" =>
              Cardinality({u \in users' : u.username = ADMIN_USERNAME}) = 1
        /\ Cardinality(users') <= 1
        /\ \A u \in users : u \in users'
      ]_vars

\* the bootstrap has run again, after logins and writes
C5_Witness ==
    /\ last.op = "setup" /\ last.out = "exists"
    /\ posts # {}
    /\ \E s \in Sessions : Authd(s)

\* C6 (as stated): with no request in progress, every post with an image
\* reference names a file present in the upload folder, and no two posts
\* name the same file.
C6_Original ==
    pc = "idle" =>
        \A p \in posts :
            p.image_file # None =>
                /\ p.image_file \in files
                /\ \A q \in posts : q # p => q.image_file # p.image_file

\* C7 (as stated): when storing the image fails, the create goes on and
\* persists the post without an image reference.
C7_Original ==
    [][ (Handled /\ last'.out = "error") =>
           /\ pc' = "persist" /\ req'.filename = None
           /\ req'.title = req.title /\ req'.content = req.content
      ]_vars

\* C7 (amended): when storing the image fails, the create ends there with an
\* error and the posts unchanged; a create that carries an image reaches the
\* insert only with the image stored and referenced.
C7_StoreFailureAborts ==
    [][ /\ (Handled /\ last'.out = "error") =>
              posts' = posts /\ pc' = "idle" /\ req' = NoReq
        /\ (Handled /\ pc' = "persist") =>
              /\ (req'.filename = None) <=> (req.image = None)
              /\ req.image # None => req'.filename \in files'
      ]_vars

\* a create has ended with a storage error
C7_Witness ==
    last.op = "create" /\ last.out = "error" /\ pc = "idle"

C9_AuthenticatedWrites ==
    [][ /\ \/ posts' = posts /\ files' = files /\ pc' = "idle"
           \/ /\ (pc = "idle" /\ last'.op = "create") =>
                    \A s \in Sessions, t \in Titles, c \in Contents, i \in Images :
                       ~(~Authd(s) /\ admin_request(s, t, c, i))
              /\ DeleteStep =>
                    \A s \in Sessions, id \in PostIds :
                       ~(~Authd(s) /\ delete_post(s, id))
        /\ (posts' # posts \/ files' # files) =>
              \/ pc # "idle" /\ Authd(req.s)
              \/ /\ pc = "idle"
                 /\ \E s \in Sessions :
                       Authd(s) /\ \E id \in PostIds : delete_post(s, id)
        /\ \A s \in Sessions :
              (~Authd(s) /\ AuthdIn(users', session', s)) =>
                 /\ \E un \in Usernames, pw \in Passwords : login(s, un, pw)
                 /\ \A un \in Usernames, pw \in Passwords :
                       login(s, un, pw) =>
                          \E u \in users :
                             /\ u.username = un
                             /\ u.id = session'[s]
                             /\ u.password.digest = <<u.password.salt, pw>>
      ]_vars

\* a write was turned away after the session had logged out, with posts and
\* files in place
C9_Witness ==
    /\ last.op \in {"create", "delete"} /\ last.out = "login_required"
    /\ posts # {} /\ files # {}
    /\ users # {}
    /\ \A s \in Sessions : ~Authd(s)

\* C10 (as stated): between the two steps of a create with an image the
\* stored file is one no post references; between the two steps of a delete
\* the post is still there and its file is gone.
C10_Original ==
    /\ (pc = "persist" /\ req.filename # None) =>
           /\ req.filename \in files
           /\ \A p \in posts : p.image_file # req.filename
    /\ pc = "remove" =>
           \E p \in posts :
              /\ p.id = req.post_id
              /\ p.image_file # None => p.image_file \notin files

\* C10 (amended): the upload step of a create stores the file and inserts
\* nothing, and a post with an image is inserted only by the later step, its
\* file already stored; the first step of a delete leaves the post in place
\* with its file gone unless the removal failed, and the row goes only in the
\* later step; an interruption between the steps changes neither posts nor
\* files.
C10_StoreThenPersist ==
    /\ [](/\ (pc = "persist" /\ req.filename # None) => req.filename \in files
          /\ pc = "remove" =>
                \E p \in posts :
                   /\ p.id = req.post_id
                   /\ (p.image_file # None /\ p.image_file \in files)
                         => req.rm = "error")
    /\ [][ /\ (pc = "idle" /\ pc' # "idle") => posts' = posts
           /\ \A p \in posts' \ posts :
                 /\ pc = "persist"
                 /\ p.image_file # None => p.image_file \in files
           /\ (\E p \in posts \ posts' : TRUE) => pc = "remove"
           /\ last'.out = "interrupted" => (posts' = posts /\ files' = files)
         ]_vars

\* a create was interrupted after its upload: a file is left and no post
C10_Witness ==
    /\ last.op = "create" /\ last.out = "interrupted"
    /\ files # {} /\ posts = {}

====
